---- MODULE Spec2Model ----
(***************************************************************************)
(* A model of src/main.py: the rate-limited fetcher (rate_limited_get),    *)
(* the three query builders, the stat aggregator (collect_user_stats,      *)
(* collect_weekly_growth) and the run orchestrator (__main__).             *)
(*                                                                         *)
(* Conventions.                                                            *)
(*  - A Python value that may be None is a sequence of length at most 1:   *)
(*    <<>> is None and <<v>> is the value v.                               *)
(*  - Query strings, urls and dates are TLA+ strings, built with \o as the *)
(*    f-strings of the source build them.                                  *)
(*  - A response body's text and the value of an X-RateLimit-Reset header  *)
(*    are sequences of one-character strings, so that text.lower(), the    *)
(*    substring test and int() are computed as the code computes them.     *)
(*    A header that is present is the decimal number of epoch seconds the  *)
(*    API documents, or the empty string.                                  *)
(*  - time.time() is read in half seconds, so that int(time.time())        *)
(*    truncates.                                                           *)
(***************************************************************************)
EXTENDS Integers, Sequences, FiniteSets, TLC

VARIABLES
    call,       \* the arguments of the query builder being executed
    url,        \* rate_limited_get's url
    params,     \* rate_limited_get's params: [q, per_page]
    attempt,    \* rate_limited_get's loop variable
    response,   \* rate_limited_get's local: the response of the last request
    hist,       \* history of the current call: one entry per request issued
    ret,        \* the response rate_limited_get returned
    result,     \* the value the query builder returned (response.json())
    exc,        \* the exception that left the query builder ("" if none)
    fpc,        \* position inside the query builder / rate_limited_get
    actor,          \* the aggregator's arguments: [username, email]
    start_date,     \* collect_weekly_growth's start_date
    stats,          \* collect_user_stats' stats["overall_stats"]
    k,              \* collect_user_stats: index of the activity being collected
    weekly_data,    \* collect_weekly_growth's weekly_data
    current_date,   \* collect_weekly_growth's current_date
    week_start,     \* collect_weekly_growth's week_start
    coauth_count,   \* collect_weekly_growth's coauth_count
    cpc,            \* position inside the aggregator
    user_i,         \* __main__: i + 1, the position of the user being analysed
    all_data,       \* __main__: all_data
    file,           \* the content of data/ai_assistant_github_analysis.json
    trace,          \* history of the run: requests, inter-user sleeps, file writes
    mpc             \* position inside __main__

fetchVars == <<call, url, params, attempt, response, hist, ret, result, exc, fpc>>

collectVars ==
    <<actor, start_date, stats, k, weekly_data, current_date, week_start,
      coauth_count, cpc>>

mainVars == <<user_i, all_data, file, trace, mpc>>

vars == <<fetchVars, collectVars, mainVars>>

----------------------------------------------------------------------------
(* Python values *)

None == <<>>

Some(v) == <<v>>

Val(o) == o[1]

\* Python truthiness of an optional string: None and "" are false.
Truthy(o) == o # None /\ Val(o) # ""

Max(a, b) == IF a >= b THEN a ELSE b

Min(a, b) == IF a <= b THEN a ELSE b

RECURSIVE Pow2(_)
Pow2(n) == IF n = 0 THEN 1 ELSE 2 * Pow2(n - 1)

----------------------------------------------------------------------------
(* Character sequences: str.lower(), the `in` substring test, int() *)

UpperChars == <<"A","B","C","D","E","F","G","H","I","J","K","L","M",
                "N","O","P","Q","R","S","T","U","V","W","X","Y","Z">>

LowerChars == <<"a","b","c","d","e","f","g","h","i","j","k","l","m",
                "n","o","p","q","r","s","t","u","v","w","x","y","z">>

LowerChar(c) ==
    IF \E i \in 1..26 : UpperChars[i] = c
    THEN LowerChars[CHOOSE i \in 1..26 : UpperChars[i] = c]
    ELSE c

StrLower(s) == [i \in 1..Len(s) |-> LowerChar(s[i])]

Contains(needle, s) ==
    \E i \in 0..(Len(s) - Len(needle)) : SubSeq(s, i + 1, i + Len(needle)) = needle

DigitChars == <<"0","1","2","3","4","5","6","7","8","9">>

DigitVal(c) == (CHOOSE i \in 1..10 : DigitChars[i] = c) - 1

\* int(s) of a string of decimal digits
RECURSIVE IntOf(_)
IntOf(s) ==
    IF Len(s) = 0 THEN 0
    ELSE 10 * IntOf(SubSeq(s, 1, Len(s) - 1)) + DigitVal(s[Len(s)])

----------------------------------------------------------------------------
(* Responses of the search API *)

\* The parsed body: response.json()
Json(kind, has, count, msg) ==
    [kind |-> kind, has_total_count |-> has, total_count |-> count, message |-> msg]

JCount(n) == Json("object", TRUE, Some(n), None)

JError(msg) == Json("object", FALSE, None, Some(msg))

JNullCount == Json("object", TRUE, None, None)

JArray == Json("array", FALSE, None, None)

JInvalid == Json("invalid", FALSE, None, None)

JNone == Json("none", FALSE, None, None)

Resp(status, text, reset, json) ==
    [status |-> status, text |-> text, reset |-> reset, json |-> json]

NoResponse == Resp(0, <<>>, None, JNone)

TxtRateLimit == <<"A","P","I"," ","r","a","t","e"," ","l","i","m","i","t">>

TxtRateLimitCaps == <<"R","a","t","e"," ","L","i","m","i","t">>

TxtRateLimitNoSpace == <<"r","a","t","e","l","i","m","i","t">>

TxtForbidden == <<"F","o","r","b","i","d","d","e","n">>

Reset990 == <<"9","9","0">>

Reset1000 == <<"1","0","0","0">>

Reset1025 == <<"1","0","2","5">>

\* The responses the server may give to one request of a single call.
FetchResponses ==
    { Resp(200, <<>>, None, JCount(42)),
      Resp(202, <<>>, None, JInvalid),
      Resp(202, TxtRateLimit, None, JError("indexing")),
      Resp(403, TxtRateLimit, None, JError("API rate limit exceeded")),
      Resp(403, TxtRateLimitCaps, Some(<<>>), JError("Rate Limit")),
      Resp(403, TxtRateLimit, Some(Reset990), JError("API rate limit exceeded")),
      Resp(403, TxtRateLimitCaps, Some(Reset1000), JError("Rate Limit")),
      Resp(403, TxtRateLimit, Some(Reset1025), JError("API rate limit exceeded")),
      Resp(403, TxtForbidden, Some(Reset1025), JError("Forbidden")),
      Resp(403, TxtRateLimitNoSpace, None, JError("ratelimit")),
      Resp(422, TxtForbidden, None, JError("Validation Failed")),
      Resp(429, TxtRateLimit, Some(Reset1025), JError("API rate limit exceeded")),
      Resp(500, <<>>, None, JInvalid) }

\* The values time.time() may return, in half seconds (1000.0 s and 1000.5 s).
ClockReads == {2000, 2001}

----------------------------------------------------------------------------
(* Query builders *)

\* sep.join(parts)
RECURSIVE JoinWith(_, _)
JoinWith(sep, parts) ==
    IF parts = <<>> THEN ""
    ELSE IF Len(parts) = 1 THEN parts[1]
    ELSE parts[1] \o sep \o JoinWith(sep, Tail(parts))

CoauthoredFallbackEmpty == ""

CoauthoredFallback == "co-authored-by:nonexistent"

AuthorFallback == "author:nonexistent"

IssuesFallback == "is:issue nonexistent"

RepositoriesFallback == "nonexistent in:name"

CodeFallback == "\"nonexistent\""

\* get_coauthored_commits: the query string
CoauthoredQuery(username, email, date_range) ==
    LET query_parts ==
            (IF Truthy(username) THEN <<"co-authored-by:" \o Val(username)>> ELSE <<>>)
            \o (IF Truthy(email) THEN <<"co-authored-by:" \o Val(email)>> ELSE <<>>)
        query == IF query_parts # <<>> THEN JoinWith(" OR ", query_parts)
                 ELSE CoauthoredFallback
    IN  IF Truthy(date_range) THEN query \o " committer-date:" \o Val(date_range)
        ELSE query

\* get_commits_by_author: the query string
AuthorQuery(username, email, date_range) ==
    LET query_parts ==
            (IF Truthy(username) THEN <<"author:" \o Val(username)>> ELSE <<>>)
            \o (IF Truthy(email) THEN <<"author-email:" \o Val(email)>> ELSE <<>>)
        query == IF query_parts # <<>> THEN JoinWith(" OR ", query_parts)
                 ELSE AuthorFallback
    IN  IF Truthy(date_range) THEN query \o " committer-date:" \o Val(date_range)
        ELSE query

SupportedSearchTypes == {"issues", "repositories", "code"}

\* get_activity: the query string, for a supported search_type
ActivityQuery(username, email, search_type, date_range) ==
    LET u == Val(username)
        e == Val(email)
        query_parts ==
            CASE search_type = "issues" ->
                    (IF Truthy(username)
                     THEN <<"is:issue \"" \o u \o "\" OR mentions:" \o u
                            \o " OR \"co-authored-by " \o u \o "\"">>
                     ELSE <<>>)
                    \o (IF Truthy(email)
                        THEN <<"is:issue \"" \o e \o "\" OR \"co-authored-by "
                               \o e \o "\"">>
                        ELSE <<>>)
              [] search_type = "repositories" ->
                    (IF Truthy(username)
                     THEN <<u \o " in:name,description,readme">> ELSE <<>>)
                    \o (IF Truthy(email)
                        THEN <<e \o " in:name,description,readme">> ELSE <<>>)
              [] search_type = "code" ->
                    (IF Truthy(username)
                     THEN <<"\"co-authored-by " \o u \o "\" OR \"" \o u
                            \o " code\" OR \"generated with " \o u \o "\"">>
                     ELSE <<>>)
                    \o (IF Truthy(email)
                        THEN <<"\"co-authored-by " \o e \o "\" OR \"" \o e
                               \o " code\"">>
                        ELSE <<>>)
        fallback ==
            CASE search_type = "issues" -> IssuesFallback
              [] search_type = "repositories" -> RepositoriesFallback
              [] search_type = "code" -> CodeFallback
        query == IF query_parts # <<>> THEN JoinWith(" OR ", query_parts)
                 ELSE fallback
    IN  IF Truthy(date_range) /\ search_type \in {"issues"}
        THEN query \o " created:" \o Val(date_range)
        ELSE query

\* The arguments of one query-builder call
Call(fn, username, email, search_type, date_range) ==
    [fn |-> fn, username |-> username, email |-> email,
     search_type |-> search_type, date_range |-> date_range]

NoCall == Call("", None, None, "", None)

\* get_activity returns an error dict, without a request, for any other surface
Supported(c) == c.fn # "get_activity" \/ c.search_type \in SupportedSearchTypes

QueryOf(c) ==
    CASE c.fn = "get_coauthored_commits" ->
            CoauthoredQuery(c.username, c.email, c.date_range)
      [] c.fn = "get_commits_by_author" ->
            AuthorQuery(c.username, c.email, c.date_range)
      [] c.fn = "get_activity" ->
            ActivityQuery(c.username, c.email, c.search_type, c.date_range)

UrlOf(c) ==
    IF c.fn = "get_activity"
    THEN "https://api.github.com/search/" \o c.search_type
    ELSE "https://api.github.com/search/commits"

NoParams == [q |-> "", per_page |-> 0]

----------------------------------------------------------------------------
(* rate_limited_get *)

max_retries == 3

NeedleRateLimit == <<"r","a","t","e"," ","l","i","m","i","t">>

\* response.status_code == 403 and 'rate limit' in response.text.lower()
IsRateLimit(r) == r.status = 403 /\ Contains(NeedleRateLimit, StrLower(r.text))

\* `if reset_time:` for the header's value
HasResetTime(r) == r.reset # None /\ Val(r.reset) # <<>>

BranchAny403(r) ==
    CASE r.status = 403 -> "ratelimit"
      [] r.status # 403 /\ r.status = 202 -> "indexing"
      [] r.status # 403 /\ r.status = 422 -> "validation"
      [] OTHER -> "other"

BranchRetry422(r) ==
    CASE IsRateLimit(r) -> "ratelimit"
      [] ~IsRateLimit(r) /\ r.status \in {202, 422} -> "indexing"
      [] OTHER -> "other"

\* The branch of the if/elif chain a response takes
Branch(r) ==
    CASE IsRateLimit(r) -> "ratelimit"
      [] ~IsRateLimit(r) /\ r.status = 202 -> "indexing"
      [] ~IsRateLimit(r) /\ r.status = 422 -> "validation"
      [] OTHER -> "other"

ResetSleepNoFloor(reset_time, t2) == IntOf(reset_time) - (t2 \div 2) + 10

\* time.sleep(max(wait_time, 30)) with wait_time = int(reset_time) - int(time.time()) + 10;
\* t2 is time.time() in half seconds
ResetSleep(reset_time, t2) == Max(IntOf(reset_time) - (t2 \div 2) + 10, 30)

BackoffWaitLinear(a) == (a + 1) * 30

\* wait_time = (2 ** attempt) * 30
BackoffWait(a) == Pow2(a) * 30

IndexingWaitBackoff == Pow2(attempt) * 30

IndexingWait == 30

MoreAttemptsInclusive(a) == a <= max_retries

\* `for attempt in range(max_retries)`: whether the loop has another iteration
MoreAttempts(a) == a < max_retries

HistEntry(r) == [resp |-> r, slept |-> None, clock |-> None]

SleptUnlessLast(w, t) ==
    IF MoreAttempts(attempt + 1)
    THEN /\ hist' = [hist EXCEPT ![Len(hist)].slept = Some(w), ![Len(hist)].clock = t]
         /\ attempt' = attempt + 1 /\ fpc' = "get" /\ ret' = ret
    ELSE /\ hist' = hist
         /\ attempt' = attempt /\ fpc' = "returned" /\ ret' = response

\* The end of a loop iteration that slept w seconds: the next iteration, or the
\* return of the last response once the retries are exhausted. t is the value
\* time.time() returned in this iteration, if it was read.
Slept(w, t) ==
    /\ hist' = [hist EXCEPT ![Len(hist)].slept = Some(w), ![Len(hist)].clock = t]
    /\ IF MoreAttempts(attempt + 1)
       THEN attempt' = attempt + 1 /\ fpc' = "get" /\ ret' = ret
       ELSE attempt' = attempt /\ fpc' = "returned" /\ ret' = response

\* A query builder up to its call of rate_limited_get
Build ==
    /\ fpc = "build"
    /\ IF Supported(call)
       THEN /\ url' = UrlOf(call)
            /\ params' = [q |-> QueryOf(call), per_page |-> 1]
            /\ attempt' = 0
            /\ fpc' = "get"
            /\ result' = result
       ELSE /\ result' = JError("Unsupported search type")
            /\ fpc' = "done"
            /\ UNCHANGED <<url, params, attempt>>
    /\ UNCHANGED <<call, response, hist, ret, exc>>
    /\ UNCHANGED collectVars
    /\ UNCHANGED mainVars

\* The part of the run a request belongs to
Phase ==
    CASE cpc = "stats" -> "stats"
      [] cpc \in {"coauth", "primary"} -> "weekly"
      [] OTHER -> "none"

\* The history with event e added, a run of equal events being kept as one
Observe(t, e) == IF t # <<>> /\ t[Len(t)] = e THEN t ELSE Append(t, e)

\* requests.get answered by the server with one of the responses S
Request(S) ==
    /\ fpc = "get"
    /\ \E r \in S :
        /\ response' = r
        /\ hist' = Append(hist, HistEntry(r))
    /\ fpc' = "got"
    /\ trace' = Observe(trace, <<"request", user_i, Phase>>)
    /\ UNCHANGED <<call, url, params, attempt, ret, result, exc>>
    /\ UNCHANGED collectVars
    /\ UNCHANGED <<user_i, all_data, file, mpc>>

\* requests.get raises: a transport failure
TransportFailure ==
    /\ fpc = "get"
    /\ fpc' = "raised"
    /\ exc' = "ConnectionError"
    /\ UNCHANGED <<call, url, params, attempt, response, hist, ret, result>>
    /\ UNCHANGED collectVars
    /\ UNCHANGED mainVars

RateLimitSleep ==
    /\ fpc = "got"
    /\ Branch(response) = "ratelimit"
    /\ IF HasResetTime(response)
       THEN \E t2 \in ClockReads :
                Slept(ResetSleep(Val(response.reset), t2), Some(t2))
       ELSE Slept(BackoffWait(attempt), None)
    /\ UNCHANGED <<call, url, params, response, result, exc>>
    /\ UNCHANGED collectVars
    /\ UNCHANGED mainVars

IndexingSleep ==
    /\ fpc = "got"
    /\ Branch(response) = "indexing"
    /\ Slept(IndexingWait, None)
    /\ UNCHANGED <<call, url, params, response, result, exc>>
    /\ UNCHANGED collectVars
    /\ UNCHANGED mainVars

ReturnValidation ==
    /\ fpc = "got"
    /\ Branch(response) = "validation"
    /\ ret' = response
    /\ fpc' = "returned"
    /\ UNCHANGED <<call, url, params, attempt, response, hist, result, exc>>
    /\ UNCHANGED collectVars
    /\ UNCHANGED mainVars

ReturnOther ==
    /\ fpc = "got"
    /\ Branch(response) = "other"
    /\ ret' = response
    /\ fpc' = "returned"
    /\ UNCHANGED <<call, url, params, attempt, response, hist, result, exc>>
    /\ UNCHANGED collectVars
    /\ UNCHANGED mainVars

\* `return response.json()`: the parsed body, or JSONDecodeError
ParseJson ==
    /\ fpc = "returned"
    /\ IF ret.json.kind = "invalid"
       THEN fpc' = "raised" /\ exc' = "JSONDecodeError" /\ result' = result
       ELSE fpc' = "done" /\ result' = ret.json /\ exc' = exc
    /\ UNCHANGED <<call, url, params, attempt, response, hist, ret>>
    /\ UNCHANGED collectVars
    /\ UNCHANGED mainVars

----------------------------------------------------------------------------
(* One call of a query builder, for every actor identity and date range *)

Usernames == {None, Some(""), Some("bot-x")}

Emails == {None, Some("bot@x.io")}

DateRanges == {None, Some("2025-02-24..2025-03-02")}

Calls ==
    { Call(fn, u, e, "", d) :
        fn \in {"get_coauthored_commits", "get_commits_by_author"},
        u \in Usernames, e \in Emails, d \in DateRanges }
    \cup
    { Call("get_activity", u, e, t, d) :
        u \in Usernames, e \in Emails,
        t \in SupportedSearchTypes \cup {"users"}, d \in DateRanges }

NoActor == [username |-> None, email |-> None]

FetchStart(c) ==
    /\ call = c
    /\ url = ""
    /\ params = NoParams
    /\ attempt = 0
    /\ response = NoResponse
    /\ hist = <<>>
    /\ ret = NoResponse
    /\ result = JNone
    /\ exc = ""
    /\ fpc = "build"

CollectIdle ==
    /\ actor = NoActor
    /\ start_date = 0
    /\ stats = <<>>
    /\ k = 0
    /\ weekly_data = <<>>
    /\ current_date = 0
    /\ week_start = 0
    /\ coauth_count = None
    /\ cpc = "none"

\* The content of the output file before the run
PreRunFile == [state |-> "previous", analysis_date |-> "", users |-> <<>>]

NoData == [analysis_date |-> "", users |-> <<>>]

MainIdle ==
    /\ user_i = 0
    /\ all_data = NoData
    /\ file = PreRunFile
    /\ trace = <<>>
    /\ mpc = "none"

InitFetch == (\E c \in Calls : FetchStart(c)) /\ CollectIdle /\ MainIdle

NextFetch ==
    \/ Build
    \/ Request(FetchResponses)
    \/ TransportFailure
    \/ RateLimitSleep
    \/ IndexingSleep
    \/ ReturnValidation
    \/ ReturnOther
    \/ ParseJson

SpecFetch == InitFetch /\ [][NextFetch]_vars

\* The single thread always takes its next step, and the server answers or fails.
SpecFetchFair == SpecFetch /\ WF_vars(NextFetch)

----------------------------------------------------------------------------
(* datetime: ticks since 2025-01-01 00:00, TicksPerDay ticks to the day *)

TicksPerDay == 2

MonthDays == <<31, 28, 31, 30, 31, 30, 31, 31, 30, 31, 30, 31>>

MonthNames == <<"Jan", "Feb", "Mar", "Apr", "May", "Jun",
                "Jul", "Aug", "Sep", "Oct", "Nov", "Dec">>

RECURSIVE DaysBefore(_)
DaysBefore(month) ==
    IF month = 1 THEN 0 ELSE DaysBefore(month - 1) + MonthDays[month - 1]

\* datetime(2025, month, day) plus tick ticks of the day
DateTime(month, day, tick) == (DaysBefore(month) + day - 1) * TicksPerDay + tick

\* timedelta(days=n)
Days(n) == n * TicksPerDay

\* <<month, day of the month>> of the d-th day of 2025 (d = 0 is January 1st)
RECURSIVE MonthDay(_, _)
MonthDay(d, month) ==
    IF d < MonthDays[month] THEN <<month, d + 1>>
    ELSE MonthDay(d - MonthDays[month], month + 1)

Pad2(n) == IF n < 10 THEN "0" \o ToString(n) ELSE ToString(n)

\* t.strftime('%Y-%m-%d')
StrfYmd(t) ==
    LET md == MonthDay(t \div TicksPerDay, 1)
    IN  "2025-" \o Pad2(md[1]) \o "-" \o Pad2(md[2])

\* t.strftime('%b %d')
StrfBd(t) ==
    LET md == MonthDay(t \div TicksPerDay, 1)
    IN  MonthNames[md[1]] \o " " \o Pad2(md[2])

\* t.strftime('%d')
StrfD(t) == Pad2(MonthDay(t \div TicksPerDay, 1)[2])

----------------------------------------------------------------------------
(* The stat aggregator: collect_user_stats and collect_weekly_growth *)

\* The enabled entries of `activities`
Activities ==
    << [name |-> "commits_coauthored", fn |-> "get_coauthored_commits", search_type |-> ""],
       [name |-> "commits_primary_author", fn |-> "get_commits_by_author", search_type |-> ""],
       [name |-> "repositories_mentioning", fn |-> "get_activity", search_type |-> "repositories"] >>

\* The call of a query builder: rate_limited_get's locals are fresh
StartCall(c) ==
    /\ call' = c
    /\ url' = ""
    /\ params' = NoParams
    /\ attempt' = 0
    /\ response' = NoResponse
    /\ hist' = <<>>
    /\ ret' = NoResponse
    /\ result' = JNone
    /\ exc' = ""
    /\ fpc' = "build"

\* The query builder has returned and its value has been consumed
EndCall ==
    /\ call' = NoCall
    /\ url' = ""
    /\ params' = NoParams
    /\ attempt' = 0
    /\ response' = NoResponse
    /\ hist' = <<>>
    /\ ret' = NoResponse
    /\ result' = JNone
    /\ exc' = ""
    /\ fpc' = "idle"

\* `'total_count' in result`, for a dict (a key) and for a list (an element)
HasTotalCount(j) == j.kind = "object" /\ j.has_total_count

\* collect_user_stats: result = get_data() of the k-th activity
StatsQuery ==
    /\ cpc = "stats"
    /\ fpc = "idle"
    /\ StartCall(Call(Activities[k].fn, actor.username, actor.email,
                      Activities[k].search_type, None))
    /\ UNCHANGED collectVars
    /\ UNCHANGED mainVars

\* collect_user_stats: the loop body after get_data() returned
StatsRecord ==
    /\ cpc = "stats"
    /\ fpc = "done"
    /\ IF HasTotalCount(result)
       THEN /\ stats' = (Activities[k].name :> result.total_count) @@ stats
            \* print(f"... {result['total_count']:,}") raises for None
            /\ IF result.total_count = None
               THEN cpc' = "raised" /\ exc' = "TypeError" /\ k' = k
                    /\ UNCHANGED <<call, url, params, attempt, response, hist, ret,
                                   result, fpc>>
               ELSE /\ k' = k + 1
                    /\ cpc' = IF k + 1 > Len(Activities) THEN "stats_returned" ELSE "stats"
                    /\ EndCall
       ELSE /\ stats' = (Activities[k].name :> None) @@ stats
            \* result.get('message', ...) raises for a list
            /\ IF result.kind # "object"
               THEN cpc' = "raised" /\ exc' = "AttributeError" /\ k' = k
                    /\ UNCHANGED <<call, url, params, attempt, response, hist, ret,
                                   result, fpc>>
               ELSE /\ k' = k + 1
                    /\ cpc' = IF k + 1 > Len(Activities) THEN "stats_returned" ELSE "stats"
                    /\ EndCall
    /\ UNCHANGED <<actor, start_date, weekly_data, current_date, week_start, coauth_count>>
    /\ UNCHANGED mainVars

\* collect_weekly_growth up to the loop: current_date = datetime.now()
WeeklyEnter(nows) ==
    /\ cpc = "weekly_entry"
    /\ \E now \in nows : current_date' = now
    /\ weekly_data' = <<>>
    /\ week_start' = start_date
    /\ cpc' = "weekly_loop"
    /\ UNCHANGED <<actor, start_date, stats, k, coauth_count>>
    /\ UNCHANGED fetchVars
    /\ UNCHANGED mainVars

HasWindowInclusive(ws, now) == ws <= now

\* while week_start < current_date
HasWindow(ws, now) == ws < now

WeekEndNoClip(ws, now) == ws + Days(6)

\* week_end = min(week_start + timedelta(days=6), current_date)
WeekEnd(ws, now) == Min(ws + Days(6), now)

DateRange(ws, we) == StrfYmd(ws) \o ".." \o StrfYmd(we)

\* The loop test and, for a window, the co-authored query
WeekBegin ==
    /\ cpc = "weekly_loop"
    /\ fpc = "idle"
    /\ IF HasWindow(week_start, current_date)
       THEN /\ StartCall(Call("get_coauthored_commits", actor.username, actor.email, "",
                              Some(DateRange(week_start, WeekEnd(week_start, current_date)))))
            /\ cpc' = "coauth"
       ELSE /\ cpc' = "weekly_returned"
            /\ UNCHANGED fetchVars
    /\ UNCHANGED <<actor, start_date, stats, k, weekly_data, current_date, week_start,
                   coauth_count>>
    /\ UNCHANGED mainVars

\* result.get('total_count', 0) if 'total_count' in result else None
CountOf(j) == IF HasTotalCount(j) THEN j.total_count ELSE None

\* coauth_count, then the primary-author query
CoauthRecord ==
    /\ cpc = "coauth"
    /\ fpc = "done"
    /\ coauth_count' = CountOf(result)
    /\ StartCall(Call("get_commits_by_author", actor.username, actor.email, "",
                      Some(DateRange(week_start, WeekEnd(week_start, current_date)))))
    /\ cpc' = "primary"
    /\ UNCHANGED <<actor, start_date, stats, k, weekly_data, current_date, week_start>>
    /\ UNCHANGED mainVars

\* primary_count, week_data appended, week_start advanced
PrimaryRecord ==
    /\ cpc = "primary"
    /\ fpc = "done"
    /\ LET week_end == WeekEnd(week_start, current_date)
       IN  weekly_data' = Append(weekly_data,
               [period |-> StrfBd(week_start) \o "-" \o StrfD(week_end),
                start_date |-> StrfYmd(week_start),
                end_date |-> StrfYmd(week_end),
                commits_coauthored |-> coauth_count,
                commits_primary_author |-> CountOf(result)])
    /\ week_start' = week_start + Days(7)
    /\ coauth_count' = None
    /\ EndCall
    /\ cpc' = "pause"
    /\ UNCHANGED <<actor, start_date, stats, k, current_date>>
    /\ UNCHANGED mainVars

\* time.sleep(1) between windows
WeekPause ==
    /\ cpc = "pause"
    /\ cpc' = "weekly_loop"
    /\ UNCHANGED <<actor, start_date, stats, k, weekly_data, current_date, week_start,
                   coauth_count>>
    /\ UNCHANGED fetchVars
    /\ UNCHANGED mainVars

\* An exception of a query builder is caught nowhere: it leaves the aggregator
Raise ==
    /\ cpc \in {"stats", "coauth", "primary"}
    /\ fpc = "raised"
    /\ cpc' = "raised"
    /\ UNCHANGED <<actor, start_date, stats, k, weekly_data, current_date, week_start,
                   coauth_count>>
    /\ UNCHANGED fetchVars
    /\ UNCHANGED mainVars

----------------------------------------------------------------------------
(* One call of collect_user_stats or of collect_weekly_growth *)

MaxSpanDays == 15

Actors == { [username |-> Some("bot-x"), email |-> None],
            [username |-> None, email |-> None] }

LaunchDates == { DateTime(2, d, t) : d \in {24, 26}, t \in 0..(TicksPerDay - 1) }

\* From 2025-02-22 00:00 on, for MaxSpanDays days after 2025-02-24
NowDates == { DateTime(2, 22, 0) + n : n \in 0..(Days(MaxSpanDays + 2) - 1) }

\* The responses the server may give while an aggregator runs
CollectResponses ==
    { Resp(200, <<>>, None, JCount(42)),
      Resp(200, <<>>, None, JNullCount),
      Resp(200, <<>>, None, JArray),
      Resp(401, <<>>, None, JError("Bad credentials")),
      Resp(202, <<>>, None, JError("indexing")),
      Resp(403, TxtRateLimit, None, JError("API rate limit exceeded")),
      Resp(422, <<>>, None, JError("Validation Failed")),
      Resp(500, <<>>, None, JInvalid) }

FetchIdle ==
    /\ call = NoCall
    /\ url = ""
    /\ params = NoParams
    /\ attempt = 0
    /\ response = NoResponse
    /\ hist = <<>>
    /\ ret = NoResponse
    /\ result = JNone
    /\ exc = ""
    /\ fpc = "idle"

InitCollect ==
    /\ FetchIdle
    /\ MainIdle
    /\ actor \in Actors
    /\ stats = <<>>
    /\ weekly_data = <<>>
    /\ current_date = 0
    /\ week_start = 0
    /\ coauth_count = None
    /\ \/ cpc = "stats" /\ k = 1 /\ start_date = 0
       \/ cpc = "weekly_entry" /\ k = 0 /\ start_date \in LaunchDates

NextCollect ==
    \/ StatsQuery
    \/ StatsRecord
    \/ WeeklyEnter(NowDates)
    \/ WeekBegin
    \/ CoauthRecord
    \/ PrimaryRecord
    \/ WeekPause
    \/ Raise
    \/ Build
    \/ Request(CollectResponses)
    \/ TransportFailure
    \/ RateLimitSleep
    \/ IndexingSleep
    \/ ReturnValidation
    \/ ReturnOther
    \/ ParseJson

SpecCollect == InitCollect /\ [][NextCollect]_vars

----------------------------------------------------------------------------
(* The run orchestrator: __main__ *)

\* users: (display_name, username, launch_date, email)
users ==
    << [display_name |-> "Claude Code", username |-> Some("claude"),
        launch_date |-> DateTime(2, 24, 0), email |-> None],
       [display_name |-> "Jules", username |-> Some("google-labs-jules[bot]"),
        launch_date |-> DateTime(2, 24, 0), email |-> None],
       [display_name |-> "Cursor", username |-> Some("cursoragent"),
        launch_date |-> DateTime(2, 24, 0), email |-> None],
       [display_name |-> "Copilot (coauthored only)", username |-> Some("Copilot"),
        launch_date |-> DateTime(2, 24, 0), email |-> None] >>

\* datetime.isoformat(), for a time on a tick
IsoFormat(t) ==
    StrfYmd(t) \o "T" \o Pad2(((t % TicksPerDay) * 24) \div TicksPerDay) \o ":00:00"

\* user_stats = collect_user_stats(...): the call
MainStats ==
    /\ mpc = "loop"
    /\ actor' = [username |-> users[user_i].username, email |-> users[user_i].email]
    /\ stats' = <<>>
    /\ k' = 1
    /\ cpc' = "stats"
    /\ mpc' = "stats"
    /\ UNCHANGED <<start_date, weekly_data, current_date, week_start, coauth_count>>
    /\ UNCHANGED fetchVars
    /\ UNCHANGED <<user_i, all_data, file, trace>>

\* collect_user_stats has returned: collect_weekly_growth(..., launch_date, ...) is called
MainWeekly ==
    /\ mpc = "stats"
    /\ cpc = "stats_returned"
    /\ start_date' = users[user_i].launch_date
    /\ cpc' = "weekly_entry"
    /\ mpc' = "weekly"
    /\ UNCHANGED <<actor, stats, k, weekly_data, current_date, week_start, coauth_count>>
    /\ UNCHANGED fetchVars
    /\ UNCHANGED <<user_i, all_data, file, trace>>

MoreUsersInclusive(n) == n <= Len(users)

\* i < len(users) - 1, for the position n = i + 1
MoreUsers(n) == n < Len(users)

\* user_stats["weekly_growth"] = ...; all_data["users"].append(user_stats)
MainAppend ==
    /\ mpc = "weekly"
    /\ cpc = "weekly_returned"
    /\ all_data' = [all_data EXCEPT !.users = Append(@,
                        [display_name |-> users[user_i].display_name,
                         username |-> actor.username,
                         email |-> actor.email,
                         overall_stats |-> stats,
                         weekly_growth |-> weekly_data])]
    /\ mpc' = IF MoreUsers(user_i) THEN "sleep" ELSE "next"
    /\ actor' = NoActor
    /\ stats' = <<>>
    /\ weekly_data' = <<>>
    /\ cpc' = "none"
    /\ UNCHANGED <<start_date, k, current_date, week_start, coauth_count>>
    /\ UNCHANGED fetchVars
    /\ UNCHANGED <<user_i, file, trace>>

\* time.sleep(30) between users
MainSleep ==
    /\ mpc = "sleep"
    /\ trace' = Append(trace, <<"sleep30", user_i, "none">>)
    /\ mpc' = "next"
    /\ UNCHANGED <<user_i, all_data, file>>
    /\ UNCHANGED fetchVars
    /\ UNCHANGED collectVars

\* The for loop takes the next user, or ends
MainNext ==
    /\ mpc = "next"
    /\ IF user_i < Len(users)
       THEN user_i' = user_i + 1 /\ mpc' = "loop"
       ELSE user_i' = user_i /\ mpc' = "open"
    /\ UNCHANGED <<all_data, file, trace>>
    /\ UNCHANGED fetchVars
    /\ UNCHANGED collectVars

OpenOutputEarly ==
    /\ mpc = "loop"
    /\ file' = [state |-> "truncated", analysis_date |-> "", users |-> <<>>]
    /\ mpc' = "dump"
    /\ UNCHANGED <<user_i, all_data, trace>>
    /\ UNCHANGED fetchVars
    /\ UNCHANGED collectVars

\* open(output_file, 'w'): the file is truncated
OpenOutput ==
    /\ mpc = "open"
    /\ file' = [state |-> "truncated", analysis_date |-> "", users |-> <<>>]
    /\ mpc' = "dump"
    /\ UNCHANGED <<user_i, all_data, trace>>
    /\ UNCHANGED fetchVars
    /\ UNCHANGED collectVars

\* json.dump(all_data, f, indent=2) and the end of the with block
DumpOutput ==
    /\ mpc = "dump"
    /\ file' = [state |-> "written", analysis_date |-> all_data.analysis_date,
                users |-> all_data.users]
    /\ trace' = Append(trace, <<"write", 0, "none">>)
    /\ mpc' = "summary"
    /\ UNCHANGED <<user_i, all_data>>
    /\ UNCHANGED fetchVars
    /\ UNCHANGED collectVars

\* stats.get(name, 0) or 0
OrZero(st, name) ==
    IF name \in DOMAIN st /\ st[name] # None THEN Val(st[name]) ELSE 0

\* The total of the summary line of the n-th user
SummaryTotal(n) ==
    OrZero(all_data.users[n].overall_stats, "commits_coauthored")
    + OrZero(all_data.users[n].overall_stats, "commits_primary_author")

\* The summary is printed and the run ends
Summary ==
    /\ mpc = "summary"
    /\ \A n \in 1..Len(all_data.users) : SummaryTotal(n) >= 0
    /\ mpc' = "done"
    /\ UNCHANGED <<user_i, all_data, file, trace>>
    /\ UNCHANGED fetchVars
    /\ UNCHANGED collectVars

\* An exception of an aggregator is caught nowhere: the run ends with a traceback
MainRaise ==
    /\ mpc \in {"stats", "weekly"}
    /\ cpc = "raised"
    /\ mpc' = "crashed"
    /\ UNCHANGED <<user_i, all_data, file, trace>>
    /\ UNCHANGED fetchVars
    /\ UNCHANGED collectVars

\* The process is inside requests.get or inside one of the time.sleep calls
Blocked ==
    \/ fpc = "get"
    \/ fpc = "got" /\ Branch(response) \in {"ratelimit", "indexing"}
    \/ cpc = "pause"
    \/ mpc = "sleep"

\* The process is killed while it waits for a response or sleeps
Kill ==
    /\ mpc \in {"stats", "weekly", "sleep"}
    /\ Blocked
    /\ mpc' = "killed"
    /\ cpc' = "killed"
    /\ fpc' = "killed"
    /\ UNCHANGED <<call, url, params, attempt, response, hist, ret, result, exc>>
    /\ UNCHANGED <<actor, start_date, stats, k, weekly_data, current_date, week_start,
                   coauth_count>>
    /\ UNCHANGED <<user_i, all_data, file, trace>>

----------------------------------------------------------------------------
(* One run of the program *)

MaxFaults == 2

\* The times datetime.now() may give during the run: the launch day and 2 days later
RunNows == { DateTime(2, 24, 0), DateTime(2, 26, 0) }

Success == Resp(200, <<>>, None, JCount(42))

\* The responses the server may give during the run
RunResponses ==
    { Success,
      Resp(202, <<>>, None, JError("indexing")),
      Resp(403, TxtRateLimit, None, JError("API rate limit exceeded")),
      Resp(422, <<>>, None, JError("Validation Failed")) }

\* The metrics recorded as None in a stats dict, or in a list of week records
NoneStats(st) == Cardinality({name \in DOMAIN st : st[name] = None})

RECURSIVE NoneWeeks(_)
NoneWeeks(w) ==
    IF w = <<>> THEN 0
    ELSE (IF w[1].commits_coauthored = None THEN 1 ELSE 0)
         + (IF w[1].commits_primary_author = None THEN 1 ELSE 0)
         + NoneWeeks(Tail(w))

RECURSIVE NoneUsers(_)
NoneUsers(u) ==
    IF u = <<>> THEN 0
    ELSE NoneStats(u[1].overall_stats) + NoneWeeks(u[1].weekly_growth) + NoneUsers(Tail(u))

\* The faults the run has seen: the metrics that failed, and the failed responses
\* of the query that is under way
FaultsSeen ==
    NoneUsers(all_data.users) + NoneStats(stats) + NoneWeeks(weekly_data)
    + (IF cpc = "primary" /\ coauth_count = None THEN 1 ELSE 0)
    + Cardinality({n \in 1..Len(hist) : hist[n].resp.status # 200})

\* The server fails at most MaxFaults times in this sense
ServerResponses == IF FaultsSeen < MaxFaults THEN RunResponses ELSE {Success}

\* The state after all_data = {...}, the for loop at the first user
InitRun ==
    /\ FetchIdle
    /\ CollectIdle
    /\ user_i = 1
    /\ \E now \in RunNows : all_data = [analysis_date |-> IsoFormat(now), users |-> <<>>]
    /\ file = PreRunFile
    /\ trace = <<>>
    /\ mpc = "loop"

NextRun ==
    \/ MainStats
    \/ MainWeekly
    \/ MainAppend
    \/ MainSleep
    \/ MainNext
    \/ OpenOutput
    \/ DumpOutput
    \/ Summary
    \/ MainRaise
    \/ Kill
    \/ StatsQuery
    \/ StatsRecord
    \/ WeeklyEnter(RunNows)
    \/ WeekBegin
    \/ CoauthRecord
    \/ PrimaryRecord
    \/ WeekPause
    \/ Raise
    \/ Build
    \/ Request(ServerResponses)
    \/ TransportFailure
    \/ RateLimitSleep
    \/ IndexingSleep
    \/ ReturnValidation
    \/ ReturnOther
    \/ ParseJson

SpecRun == InitRun /\ [][NextRun]_vars


----------------------------------------------------------------------------
(* Properties of one rate_limited_get call *)

RateLimitTexts == {TxtRateLimit, TxtRateLimitCaps}

\* A 403 whose body indicates a rate limit
RateLimit403(r) == r.status = 403 /\ r.text \in RateLimitTexts

Retryable(r) == r.status = 202 \/ RateLimit403(r)

\* rate_limited_get has returned a response
GetReturned == ret.status # 0

\* The request of attempt i has been fully handled (slept after, or returned)
Handled(i) == i < Len(hist) \/ fpc # "got"

AllOf(P(_)) == \A i \in 1..Len(hist) : P(hist[i].resp)

\* At most 3 requests, at least 1 once returned, and the 3rd response returned
\* when every response was retryable
C1_Requests ==
    /\ Len(hist) <= 3
    /\ GetReturned => Len(hist) >= 1
    /\ (GetReturned /\ AllOf(Retryable)) => (Len(hist) = 3 /\ ret = hist[3].resp)

\* C1: one call issues at least 1 and at most 3 requests, terminates, and when
\* all 3 attempts receive a retryable response (202, or a rate-limit 403) it
\* returns exactly the response of the 3rd request.
C1_BoundedRetries == [](C1_Requests) /\ <>(fpc \in {"done", "raised"})

C1_Witness == GetReturned /\ Len(hist) = 3 /\ AllOf(Retryable) /\ ret = hist[3].resp

\* C2: a 422 response is returned as it is, with no sleep and no further
\* request; a 422 as the first response means exactly one request.
C2_ValidationShortCircuits ==
    \A i \in 1..Len(hist) :
        hist[i].resp.status = 422 =>
            /\ i = Len(hist)
            /\ hist[i].slept = None
            /\ fpc # "get"
            /\ GetReturned => ret = hist[i].resp

C2_Witness ==
    /\ GetReturned
    /\ Len(hist) = 1
    /\ hist[1].resp.status = 422
    /\ ret = hist[1].resp

NoHeaderRateLimit(r) == RateLimit403(r) /\ r.reset = None

BackoffSchedule(i) == CASE i = 1 -> 30 [] i = 2 -> 60 [] i = 3 -> 120

\* C3: a rate-limit 403 without a reset header on attempt k = 1, 2, 3 is
\* followed by a wait of 30, 60, 120 seconds, and after the 3rd attempt the
\* call gives up and returns the last response.
C3_BackoffSchedule ==
    /\ Len(hist) <= 3
    /\ \A i \in 1..Len(hist) :
        (NoHeaderRateLimit(hist[i].resp) /\ Handled(i)) =>
            /\ hist[i].slept = Some(BackoffSchedule(i))
            /\ (i < 3 /\ fpc # "raised") => (Len(hist) > i \/ fpc = "get")
            /\ (i = 3 /\ fpc # "raised") => (GetReturned /\ ret = hist[3].resp)

C3_Witness ==
    /\ Len(hist) = 3
    /\ AllOf(NoHeaderRateLimit)
    /\ hist[1].slept = Some(30) /\ hist[2].slept = Some(60) /\ hist[3].slept = Some(120)
    /\ ret = hist[3].resp

HeaderRateLimit(r) == RateLimit403(r) /\ r.reset \notin {None, Some(<<>>)}

\* The epoch second a reset header names
ResetSecond(r) ==
    CASE r.reset = Some(Reset990) -> 990
      [] r.reset = Some(Reset1000) -> 1000
      [] r.reset = Some(Reset1025) -> 1025

\* C4: after a rate-limit 403 whose reset header is N seconds after the current
\* time, the wait is at least max(N + 10, 30) seconds, never below 30, on every
\* attempt (and exactly max(N + 10, 30) when N is a whole number of seconds).
C4_ResetWait ==
    \A i \in 1..Len(hist) :
        (HeaderRateLimit(hist[i].resp) /\ Handled(i)) =>
            /\ hist[i].slept # None
            /\ hist[i].clock # None
            /\ LET w  == Val(hist[i].slept)
                   n2 == 2 * ResetSecond(hist[i].resp) - Val(hist[i].clock)
               IN  /\ w >= 30
                   /\ 2 * w >= n2 + 20
                   /\ (n2 % 2 = 0) => (w = Max((n2 \div 2) + 10, 30))

C4_Witness ==
    /\ Len(hist) = 3
    /\ hist[1].resp.reset = Some(Reset990) /\ hist[1].slept = Some(30)
    /\ hist[2].resp.reset = Some(Reset1000) /\ hist[2].slept = Some(30)
    /\ hist[3].resp.reset = Some(Reset1025) /\ hist[3].slept = Some(35)
    /\ hist[3].clock = Some(2001)
    /\ AllOf(HeaderRateLimit)

Is202(r) == r.status = 202

\* C5: every 202 is followed by a wait of exactly 30 seconds and, while
\* attempts remain, by a retry; each 202 uses one of the 3 attempts, so a call
\* that receives only 202 makes exactly 3 requests and returns the last 202.
C5_IndexingWait ==
    /\ \A i \in 1..Len(hist) :
        (Is202(hist[i].resp) /\ Handled(i)) =>
            /\ hist[i].slept = Some(30)
            /\ (i < 3 /\ fpc # "raised") => (Len(hist) > i \/ fpc = "get")
    /\ (GetReturned /\ AllOf(Is202)) => (Len(hist) = 3 /\ ret = hist[3].resp)

C5_Witness ==
    /\ GetReturned
    /\ Len(hist) = 3
    /\ AllOf(Is202)
    /\ \A i \in 1..3 : hist[i].slept = Some(30)
    /\ ret = hist[3].resp

Terminal(r) == r.status \notin {202, 422} /\ ~RateLimit403(r)

\* C6: a response that is not 202, not 422 and not a rate-limit 403 is returned
\* at once on whichever attempt it arrives: no sleep for it, no further request.
C6_OtherReturnsImmediately ==
    \A i \in 1..Len(hist) :
        Terminal(hist[i].resp) =>
            /\ i = Len(hist)
            /\ hist[i].slept = None
            /\ fpc # "get"
            /\ GetReturned => ret = hist[i].resp

C6_Witness ==
    /\ GetReturned
    /\ Len(hist) = 2
    /\ hist[2].resp.status = 403
    /\ hist[2].resp.text = TxtForbidden
    /\ hist[2].slept = None
    /\ ret = hist[2].resp

\* The attempts of the current call that were followed by a sleep
SleptAttempts == {i \in 1..Len(hist) : hist[i].slept # None}

\* The attempts of the current call that received a retryable response
RetryableAttempts == {i \in 1..Len(hist) : Retryable(hist[i].resp)}

RECURSIVE SleepTotal(_)
SleepTotal(n) == IF n = 0 THEN 0 ELSE SleepTotal(n - 1) + Val(hist[n].slept)

\* C13: every retryable response is followed by a sleep, also on the final
\* attempt: once the call has returned the sleeps are exactly the retryable
\* responses, a call of 3 retryable responses has made 3 requests and 3 sleeps,
\* the last sleep after the last request and before the return (30 + 60 + 120 =
\* 210 seconds when no response carried a reset header).
C13_SleepAfterEveryRetryable ==
    /\ SleptAttempts \subseteq RetryableAttempts
    /\ \A i \in RetryableAttempts : Handled(i) => i \in SleptAttempts
    /\ GetReturned => SleptAttempts = RetryableAttempts
    /\ (GetReturned /\ AllOf(Retryable)) =>
            /\ Len(hist) = 3
            /\ Cardinality(SleptAttempts) = 3
            /\ fpc # "get"
    /\ (GetReturned /\ AllOf(NoHeaderRateLimit)) =>
            /\ hist[3].slept = Some(120)
            /\ SleepTotal(3) = 210

C13_Witness ==
    /\ fpc = "returned"
    /\ Len(hist) = 3
    /\ AllOf(NoHeaderRateLimit)
    /\ hist[3].slept = Some(120)
    /\ SleepTotal(3) = 210
    /\ ret = hist[3].resp

----------------------------------------------------------------------------
(* Properties of the query builders *)

NoIdentity(c) == c.username \in {None, Some("")} /\ c.email \in {None, Some("")}

\* The query an actor without handle and email must send
SentinelQuery(c) ==
    CASE c.fn = "get_coauthored_commits" /\ c.date_range = None ->
            "co-authored-by:nonexistent"
      [] c.fn = "get_coauthored_commits" /\ c.date_range # None ->
            "co-authored-by:nonexistent committer-date:2025-02-24..2025-03-02"
      [] c.fn = "get_commits_by_author" /\ c.date_range = None ->
            "author:nonexistent"
      [] c.fn = "get_commits_by_author" /\ c.date_range # None ->
            "author:nonexistent committer-date:2025-02-24..2025-03-02"
      [] c.fn = "get_activity" /\ c.search_type = "issues" /\ c.date_range = None ->
            "is:issue nonexistent"
      [] c.fn = "get_activity" /\ c.search_type = "issues" /\ c.date_range # None ->
            "is:issue nonexistent created:2025-02-24..2025-03-02"
      [] c.fn = "get_activity" /\ c.search_type = "repositories" ->
            "nonexistent in:name"
      [] c.fn = "get_activity" /\ c.search_type = "code" ->
            "\"nonexistent\""

\* C9: for an actor with neither handle nor email, every request of every
\* query builder, with or without a date range, carries the query built from
\* the sentinel 'nonexistent', never an empty or identifier-free query.
C9_SentinelQuery ==
    (NoIdentity(call) /\ Len(hist) >= 1) =>
        /\ params.q # ""
        /\ params.q = SentinelQuery(call)
        /\ params.per_page = 1

C9_Witness ==
    /\ NoIdentity(call)
    /\ call.fn = "get_coauthored_commits"
    /\ call.date_range # None
    /\ Len(hist) >= 1
    /\ params.q = "co-authored-by:nonexistent committer-date:2025-02-24..2025-03-02"

----------------------------------------------------------------------------
(* Properties of the stat aggregator *)

\* The day of 2025 (0 is January 1st) a 'YYYY-MM-DD' string of February or March names
DayIndex(str) == CHOOSE d \in DaysBefore(2)..(DaysBefore(4) - 1) : StrfYmd(Days(d)) = str

\* C7: the weekly windows start at the launch date, are in chronological order,
\* contiguous and non-overlapping (each starts the day after the previous one
\* ends), span at most 7 calendar days, and end at or before the current time
\* read when the collection started.
C7_WeeklyWindows ==
    /\ Len(weekly_data) >= 1 => weekly_data[1].start_date = StrfYmd(start_date)
    /\ \A i \in 1..Len(weekly_data) :
        LET s == DayIndex(weekly_data[i].start_date)
            e == DayIndex(weekly_data[i].end_date)
        IN  /\ s <= e
            /\ e - s + 1 <= 7
            /\ Days(e) <= current_date
    /\ \A i \in 1..(Len(weekly_data) - 1) :
        DayIndex(weekly_data[i + 1].start_date) = DayIndex(weekly_data[i].end_date) + 1

C7_Witness ==
    /\ cpc = "weekly_returned"
    /\ start_date = DateTime(2, 26, 1)
    /\ Len(weekly_data) = 2
    /\ weekly_data[1].start_date = "2025-02-26"
    /\ weekly_data[1].end_date = "2025-03-04"
    /\ weekly_data[2].start_date = "2025-03-05"
    /\ weekly_data[2].end_date = "2025-03-07"
    /\ current_date = DateTime(3, 7, 0)

\* The (start_date, end_date) pairs of the windows collected
Windows == [i \in 1..Len(weekly_data) |->
                <<weekly_data[i].start_date, weekly_data[i].end_date>>]

\* collect_weekly_growth has returned for "bot-x", no email, launch 2025-02-24,
\* with "now" on 2025-03-10
Scenario0310 ==
    /\ cpc = "weekly_returned"
    /\ actor = [username |-> Some("bot-x"), email |-> None]
    /\ start_date = DateTime(2, 24, 0)
    /\ current_date \div TicksPerDay = DateTime(3, 10, 0) \div TicksPerDay

ThreeWindows ==
    << <<"2025-02-24", "2025-03-02">>,
       <<"2025-03-03", "2025-03-09">>,
       <<"2025-03-10", "2025-03-10">> >>

\* C8 as stated: in the scenario exactly the three windows are produced, at
\* every time of day of "now", midnight included.
C8_ThreeWindowsAnyTime == Scenario0310 => Windows = ThreeWindows

\* C8 as amended: in the scenario exactly the three windows are produced at
\* every time of day after midnight; at 00:00:00 exactly the first two are.
C8_ThreeWindowsAfterMidnight ==
    Scenario0310 =>
        IF current_date % TicksPerDay # 0
        THEN Windows = ThreeWindows
        ELSE Windows = SubSeq(ThreeWindows, 1, 2)

C8_Witness ==
    /\ Scenario0310
    /\ current_date % TicksPerDay # 0
    /\ Len(weekly_data) = 3
    /\ weekly_data[3].period = "Mar 10-10"

\* C10 as stated: no outcome of a query other than a transport failure raises
\* past the query: the aggregator is left by an exception only for a transport
\* failure, and every metric recorded is an integer or null.
C10_OnlyTransportFailuresRaise ==
    /\ cpc = "raised" => exc = "ConnectionError"
    /\ \A name \in DOMAIN stats : stats[name] = None \/ Val(stats[name]) \in Nat
    /\ \A i \in 1..Len(weekly_data) :
        /\ weekly_data[i].commits_coauthored = None
           \/ Val(weekly_data[i].commits_coauthored) \in Nat
        /\ weekly_data[i].commits_primary_author = None
           \/ Val(weekly_data[i].commits_primary_author) \in Nat

----------------------------------------------------------------------------
(* Properties of one run *)

Events(kind) == {p \in 1..Len(trace) : trace[p][1] = kind}

\* The n-th record of a list of user records is the complete record of the n-th
\* configured user: overall stats of every activity and a list of weeks
Collected(u, n) ==
    /\ u[n].display_name = users[n].display_name
    /\ u[n].username = users[n].username
    /\ DOMAIN u[n].overall_stats = {Activities[a].name : a \in 1..Len(Activities)}
    /\ \A w \in 1..Len(u[n].weekly_growth) :
           DOMAIN u[n].weekly_growth[w] =
               {"period", "start_date", "end_date", "commits_coauthored",
                "commits_primary_author"}

AllCollected(u) ==
    /\ Len(u) = Len(users)
    /\ \A n \in 1..Len(users) : Collected(u, n)

\* C11: the output file is written once per run and only after the overall stats
\* and the weekly growth of every configured user have been collected: before
\* that, also in a run ended by a transport failure or killed at a request or a
\* sleep, the file holds its content of before the run, and no written file
\* holds only some of the users.
C11_WrittenOnceAtEnd ==
    /\ mpc \notin {"dump", "summary", "done"} => file = PreRunFile /\ Events("write") = {}
    /\ mpc \in {"crashed", "killed"} => file = PreRunFile
    /\ file # PreRunFile => AllCollected(all_data.users)
    /\ file.state = "written" =>
           /\ AllCollected(file.users)
           /\ file.users = all_data.users
           /\ file.analysis_date = all_data.analysis_date
    /\ Cardinality(Events("write")) <= 1
    /\ mpc \in {"summary", "done"} <=> file.state = "written"
    /\ file.state = "written" <=> Cardinality(Events("write")) = 1

C11_Witness ==
    /\ mpc = "done"
    /\ file.state = "written"
    /\ Len(file.users) = 4
    /\ Cardinality(Events("write")) = 1
    /\ \E n \in 1..4 : file.users[n].weekly_growth # <<>>

\* C12: the users are processed in the configured order, the overall stats of a
\* user before its weekly growth; a 30 second sleep lies between the last request
\* of a user and the first request of the next, none follows the last user, and
\* a complete run of n users has made n - 1 such sleeps, all before the write.
C12_InterUserPacing ==
    /\ trace # <<>> => trace[1] = <<"request", 1, "stats">>
    /\ \A p \in Events("request") :
           trace[p][2] \in 1..Len(users) /\ trace[p][3] \in {"stats", "weekly"}
    /\ \A p \in 1..(Len(trace) - 1) :
           LET a == trace[p]
               b == trace[p + 1]
           IN  /\ a[1] = "request" /\ b[1] = "request" =>
                       b[2] = a[2] /\ a[3] = "stats" /\ b[3] = "weekly"
               /\ a[1] = "request" /\ b[1] = "sleep30" =>
                       b[2] = a[2] /\ a[2] < Len(users)
               /\ a[1] = "sleep30" => b = <<"request", a[2] + 1, "stats">>
               /\ b[1] = "write" => a[1] = "request" /\ a[2] = Len(users)
               /\ a[1] # "write"
    /\ Cardinality(Events("sleep30")) =
           (IF mpc \in {"next", "open", "dump", "summary", "done"}
            THEN Min(user_i, Len(users) - 1)
            ELSE user_i - 1)
    /\ Cardinality(Events("sleep30")) <= Len(users) - 1
    /\ mpc \in {"open", "dump", "summary", "done"} =>
           /\ Cardinality(Events("sleep30")) = Len(users) - 1
           /\ \A n \in 1..Len(users) :
                  \E p \in Events("request") : trace[p] = <<"request", n, "stats">>

C12_Witness ==
    /\ mpc = "done"
    /\ Cardinality(Events("sleep30")) = 3
    /\ Len(trace) = 12
    /\ trace[Len(trace)][1] = "write"

====
